---- MODULE Spec2Model ----
(***************************************************************************)
(* Model of the freehand tool's filter pipe (bootchk/freehandTool):        *)
(*   FreehandTool (feeder, pause timer)                                    *)
(*     -> TurnGenerator (ReverseDetector, Axis)                            *)
(*     -> LineGenerator (Constraints)                                      *)
(*     -> CurveGenerator -> SegmentString (the sink).                      *)
(* The generators are coroutines called synchronously: one pointer event   *)
(* runs through the whole pipe before the next is accepted, so each event  *)
(* handler of FreehandTool is one action.                                  *)
(*                                                                         *)
(* Representation.                                                         *)
(*  - A PointerPoint (int, device CS) is a pair <<x, y>>.                  *)
(*  - A FreehandPoint (real, scene CS) is a triple <<xn, yn, d>> for the   *)
(*    point (xn/d, yn/d) in lowest terms: the points the pipe computes are *)
(*    rational, so the arithmetic of interval() is exact.                  *)
(*  - Python's None is the empty tuple for point-valued and pair-valued    *)
(*    fields and the string "None" for orientation / isGrowingLower.       *)
(*  - An exception that escapes a generator is recorded in the field err   *)
(*    of the pipe record that is threaded through one event; statements    *)
(*    after the raising call are skipped, as in Python.                    *)
(*  - The turn detector is turnDetector/reverseDetector.py with            *)
(*    utils/axis.py.  The turn generator takes (position, forced) pairs    *)
(*    from FreehandTool; its non-forced body is turnGenerator.py, its      *)
(*    forced body (TurnGeneratorForced) follows the design document.       *)
(***************************************************************************)
EXTENDS Integers, Sequences, FiniteSets, TLC

(***************************************************************************)
(* Bounds of the model.                                                    *)
(***************************************************************************)
MaxX == 2
MaxY == 2
MaxSamples == 3
MaxAxis == 3
MaxAxisSamples == 4
\* SpecCurve: number of PathLines sent into the curve generator.
MaxLines == 2
\* SpecPause: number of samples of a stroke.
MaxPauseSamples == 4
\* SpecCusp: number of calls of segmentsForCusp.
MaxCuspCalls == 1

None == <<>>
NoError == "none"

Grid == (0..MaxX) \X (0..MaxY)

Abs(n) == IF n < 0 THEN -n ELSE n

(***************************************************************************)
(* type/pointerPoint.py, type/freehandPoint.py, type/pathLine.py           *)
(***************************************************************************)
crossProduct(self, other) == self[1] * other[2] - self[2] * other[1]

\* QPoint.__sub__ as used by "currentTurn - history.start"
PointMinus(a, b) == <<a[1] - b[1], a[2] - b[2]>>

sign(x) == IF x > 0 THEN 1 ELSE IF x < 0 THEN -1 ELSE 0

\* Applied to mapped device points (denominator 1) only.
cardinalDirectionLeft90(self, other) ==
  << -sign(other[2] - self[2]), sign(other[1] - self[1]), 1 >>

PathLine(point1, point2) == [p1 |-> point1, p2 |-> point2]

nullPathLine(point) == PathLine(point, point)

\* QLine.dx() == 0 and QLine.dy() == 0
isNullPathLine(line) ==
  line.p2[1] - line.p1[1] = 0 /\ line.p2[2] - line.p1[2] = 0

(***************************************************************************)
(* generator/utils/history.py                                              *)
(***************************************************************************)
History(initialState) == [start |-> initialState, end |-> initialState]

updateEnd(h, newState) == [h EXCEPT !.end = newState]

roll(h) == [h EXCEPT !.start = h.end]

collapse(h, newState) == [start |-> newState, end |-> newState]

isCollapsed(h) == h.start = h.end

(***************************************************************************)
(* generator/utils/orthogonal.py                                           *)
(***************************************************************************)
areHorizontallyAligned(position1, position2) == position1[2] = position2[2]

areVerticallyAligned(position1, position2) == position1[1] = position2[1]

areOrthogonal(position1, position2) ==
  areHorizontallyAligned(position1, position2)
    \/ areVerticallyAligned(position1, position2)

(***************************************************************************)
(* generator/utils/axis.py.  An axis is [orientation, startPosition].      *)
(***************************************************************************)
AxisReset(startPosition) ==
  [orientation |-> "None", startPosition |-> startPosition]

isOrientationKnown(axis) == axis.orientation # "None"

isOnKnownAxis(axis, position) ==
  IF axis.orientation = "H"
    THEN areHorizontallyAligned(axis.startPosition, position)
    ELSE areVerticallyAligned(axis.startPosition, position)

isDiagonalToStart(axis, position) ==
  ~areOrthogonal(axis.startPosition, position)

\* Mutant: diagonal is judged against the start position alone, also when
\* the orientation is known.
isPositionDiagonal_ToStartOnly(axis, position) ==
  isDiagonalToStart(axis, position)

isPositionDiagonal(axis, position) ==
  IF isOrientationKnown(axis)
    THEN ~isOnKnownAxis(axis, position)
    ELSE isDiagonalToStart(axis, position)

\* The orientation determineOrientation() sets; "Ambiguous" stands for the
\* RuntimeError raised for a position diagonal to startPosition.
determineOrientation(axis, position) ==
  IF areHorizontallyAligned(axis.startPosition, position) THEN "H"
  ELSE IF areVerticallyAligned(axis.startPosition, position) THEN "V"
  ELSE "Ambiguous"

\* The assertions of determineOrientation().
determineOrientationAsserts(axis, position) ==
  /\ ~isOrientationKnown(axis)
  /\ axis.startPosition # None
  /\ axis.startPosition # position

\* The assertions of onAxisValue().
onAxisValueAsserts(axis, position) ==
  /\ isOrientationKnown(axis)
  /\ isOnKnownAxis(axis, position)

onAxisValue(axis, position) ==
  IF axis.orientation = "H" THEN position[1] ELSE position[2]

(***************************************************************************)
(* generator/turnDetector/reverseDetector.py.  A detector is               *)
(* [axis, lowerLimit, upperLimit, isGrowingLower, extremePosition, err];   *)
(* err names the exception a failed assertion or raise leaves behind.      *)
(***************************************************************************)
Raise(rec, exception) ==
  IF rec.err = NoError THEN [rec EXCEPT !.err = exception] ELSE rec

_resetGrowthParameters(d) ==
  [d EXCEPT !.lowerLimit = None, !.upperLimit = None,
            !.isGrowingLower = "None", !.extremePosition = None]

_resetToAxisUnknown(d, newStartPosition) ==
  [_resetGrowthParameters(d) EXCEPT !.axis = AxisReset(newStartPosition)]

ReverseDetector(initialPosition) ==
  [axis |-> AxisReset(initialPosition),
   lowerLimit |-> None, upperLimit |-> None,
   isGrowingLower |-> "None", extremePosition |-> None,
   err |-> NoError]

_flipGrowth(d) ==
  IF d.isGrowingLower = "None" THEN Raise(d, "AssertionError")
  ELSE [d EXCEPT !.isGrowingLower =
                   IF d.isGrowingLower = "True" THEN "False" ELSE "True"]

_size(d) == d.upperLimit - d.lowerLimit + 1

isDirectionKnown(d) == d.isGrowingLower # "None"

\* Mutant: the first two distinct values also fix the direction of growth.
_setInitialLimits_KnowsDirection(d, position) ==
  IF ~(isOrientationKnown(d.axis) /\ isOnKnownAxis(d.axis, position))
    THEN Raise(d, "AssertionError")
  ELSE
    LET s == IF d.axis.orientation = "V" THEN d.axis.startPosition[2]
                                         ELSE d.axis.startPosition[1]
        v == IF d.axis.orientation = "V" THEN position[2] ELSE position[1]
        Checked(d1) ==
          IF d1.lowerLimit = d1.upperLimit THEN Raise(d1, "AssertionError")
          ELSE d1
    IN Checked([d EXCEPT !.lowerLimit = IF s < v THEN s ELSE v,
                         !.upperLimit = IF s < v THEN v ELSE s,
                         !.isGrowingLower = IF s < v THEN "False" ELSE "True",
                         !.extremePosition = position])

_setInitialLimits(d, position) ==
  IF ~(isOrientationKnown(d.axis) /\ isOnKnownAxis(d.axis, position))
    THEN Raise(d, "AssertionError")
  ELSE
    LET s == IF d.axis.orientation = "V" THEN d.axis.startPosition[2]
                                         ELSE d.axis.startPosition[1]
        v == IF d.axis.orientation = "V" THEN position[2] ELSE position[1]
        Checked(d1) ==
          IF d1.lowerLimit = d1.upperLimit THEN Raise(d1, "AssertionError")
          ELSE d1
    IN Checked([d EXCEPT !.lowerLimit = IF s < v THEN s ELSE v,
                         !.upperLimit = IF s < v THEN v ELSE s,
                         !.extremePosition = position])

\* Mutant: a position beyond a limit moves the limit and the direction but
\* not the extreme position.
_expandLimits_KeepsExtreme(d, value, newPosition) ==
  IF value < d.lowerLimit
    THEN [d EXCEPT !.lowerLimit = value, !.isGrowingLower = "True"]
  ELSE IF value > d.upperLimit
    THEN [d EXCEPT !.upperLimit = value, !.isGrowingLower = "False"]
  ELSE d

_expandLimits(d, value, newPosition) ==
  IF value < d.lowerLimit
    THEN [d EXCEPT !.lowerLimit = value, !.isGrowingLower = "True",
                   !.extremePosition = newPosition]
  ELSE IF value > d.upperLimit
    THEN [d EXCEPT !.upperLimit = value, !.isGrowingLower = "False",
                   !.extremePosition = newPosition]
  ELSE d

\* Mutant: a reversal test without the one unit of jitter tolerance.
_isReversal_NoTolerance(d, value) ==
  IF d.isGrowingLower = "True" THEN value > d.lowerLimit
                               ELSE value < d.upperLimit

\* Mutant: a reversal test that tolerates two units of retreat.
_isReversal_ToleratesTwo(d, value) ==
  IF d.isGrowingLower = "True" THEN value > d.lowerLimit + 2
                               ELSE value < d.upperLimit - 2

_isReversal(d, value) ==
  IF d.isGrowingLower = "True" THEN value > d.lowerLimit + 1
                               ELSE value < d.upperLimit - 1

_isReverse(d, onAxisValue_) ==
  IF _size(d) = 2 THEN FALSE ELSE _isReversal(d, onAxisValue_)

\* The assertions _isReverse() and _isReversal() make on their way.
_isReverseAsserts(d) == _size(d) > 1 /\ (_size(d) # 2 => isDirectionKnown(d))

\* axis.tryDetermineOrientation() followed by _setInitialLimits() when the
\* orientation has just become known (detectReversal, first half).
_tryDetermine(d, newPosition) ==
  IF isOrientationKnown(d.axis) \/ newPosition = d.axis.startPosition THEN d
  ELSE IF ~determineOrientationAsserts(d.axis, newPosition)
    THEN Raise(d, "AssertionError")
  ELSE IF determineOrientation(d.axis, newPosition) = "Ambiguous"
    THEN Raise(d, "RuntimeError")
  ELSE _setInitialLimits(
         [d EXCEPT !.axis.orientation =
                     determineOrientation(d.axis, newPosition)],
         newPosition)

\* Returns [det, result]: result is the extreme position reversed from, or None.
detectReversal(d, newPosition) ==
  LET Decide(d2, value) ==
        IF ~isDirectionKnown(d2) THEN [det |-> d2, result |-> None]
        ELSE IF ~_isReverseAsserts(d2)
          THEN [det |-> Raise(d2, "AssertionError"), result |-> None]
        ELSE IF _isReverse(d2, value)
          THEN [det |-> d2, result |-> d2.extremePosition]
        ELSE [det |-> d2, result |-> None]
      Limits(d1) ==
        IF d1.err # NoError \/ ~isOrientationKnown(d1.axis)
          THEN [det |-> d1, result |-> None]
        ELSE IF ~onAxisValueAsserts(d1.axis, newPosition)
          THEN [det |-> Raise(d1, "AssertionError"), result |-> None]
        ELSE Decide(_expandLimits(d1, onAxisValue(d1.axis, newPosition),
                                  newPosition),
                    onAxisValue(d1.axis, newPosition))
  IN IF isPositionDiagonal(d.axis, newPosition)
       THEN [det |-> Raise(d, "AssertionError"), result |-> None]
     ELSE Limits(_tryDetermine(d, newPosition))

\* Mutant: after a reversal the detector is cleared at the new position.
_resetAfterReversal_Clears(d, newPosition) ==
  _resetToAxisUnknown(d, newPosition)

_resetAfterReversal(d, newPosition) ==
  LET Ensure(d2) ==
        IF d2.err = NoError /\ d2.extremePosition = d.extremePosition
          THEN Raise(d2, "AssertionError")
        ELSE d2
      Limits(d1) ==
        IF d1.err # NoError THEN d1 ELSE _setInitialLimits(d1, newPosition)
  IN IF d.extremePosition = newPosition THEN Raise(d, "AssertionError")
     ELSE IF ~isOnKnownAxis(d.axis, d.extremePosition)
       THEN Raise(d, "AssertionError")
     ELSE Ensure(Limits(_flipGrowth(
                   [d EXCEPT !.axis.startPosition = d.extremePosition])))

\* ReverseDetector.detect(): [det, result], result the turn or None.
detect(d, newPosition) ==
  LET Reset(r) ==
        IF r.det.err # NoError \/ r.result = None THEN r
        ELSE [det |-> _resetAfterReversal(r.det, newPosition),
              result |-> r.result]
  IN IF isPositionDiagonal(d.axis, newPosition)
       THEN [det |-> _resetToAxisUnknown(d, newPosition),
             result |-> newPosition]
     ELSE Reset(detectReversal(d, newPosition))

(***************************************************************************)
(* generator/utils/constraints.py.  Constraints are                        *)
(* [constraintLeft, constraintRight], two integer vectors.                 *)
(***************************************************************************)
Constraints == [constraintLeft |-> <<0, 0>>, constraintRight |-> <<0, 0>>]

isViolatedBy(c, vector) ==
  crossProduct(c.constraintLeft, vector) < 0
    \/ crossProduct(c.constraintRight, vector) > 0

offsetLeft(v) ==
  << v[1] + (IF v[2] >= 0 /\ (v[2] > 0 \/ v[1] < 0) THEN 1 ELSE -1),
     v[2] + (IF v[1] <= 0 /\ (v[1] < 0 \/ v[2] < 0) THEN 1 ELSE -1) >>

offsetRight(v) ==
  << v[1] + (IF v[2] <= 0 /\ (v[2] < 0 \/ v[1] < 0) THEN 1 ELSE -1),
     v[2] + (IF v[1] >= 0 /\ (v[1] > 0 \/ v[2] < 0) THEN 1 ELSE -1) >>

\* Mutant: each offset is tested against the opposite constraint.
update_TestsSwapped(c, v) ==
  [constraintLeft |->
     IF crossProduct(c.constraintRight, offsetLeft(v)) >= 0
       THEN offsetLeft(v) ELSE c.constraintLeft,
   constraintRight |->
     IF crossProduct(c.constraintLeft, offsetRight(v)) <= 0
       THEN offsetRight(v) ELSE c.constraintRight]

\* Mutant: the right constraint is moved to the left offset of the vector.
update_OneOffset(c, v) ==
  [constraintLeft |->
     IF crossProduct(c.constraintLeft, offsetLeft(v)) >= 0
       THEN offsetLeft(v) ELSE c.constraintLeft,
   constraintRight |->
     IF crossProduct(c.constraintRight, offsetLeft(v)) <= 0
       THEN offsetLeft(v) ELSE c.constraintRight]

update(c, v) ==
  [constraintLeft |->
     IF crossProduct(c.constraintLeft, offsetLeft(v)) >= 0
       THEN offsetLeft(v) ELSE c.constraintLeft,
   constraintRight |->
     IF crossProduct(c.constraintRight, offsetRight(v)) <= 0
       THEN offsetRight(v) ELSE c.constraintRight]

(***************************************************************************)
(* Real valued points (type/freehandPoint.py).  A FreehandPoint is         *)
(* <<xn, yn, d>> for the point (xn/d, yn/d), kept in lowest terms with     *)
(* d > 0, so that Python's == on points is equality of the triples.        *)
(* Fractions (alpha and the interval fraction) are pairs <<num, den>>.     *)
(***************************************************************************)
RECURSIVE GCD(_, _)
GCD(a, b) == IF b = 0 THEN a ELSE GCD(b, a % b)

Normalize(xn, yn, d) ==
  LET Lowest(g) == << xn \div g, yn \div g, d \div g >>
  IN Lowest(GCD(GCD(Abs(xn), Abs(yn)), d))

\* FreehandPoint(self.mapFromDeviceToScene(pointVCS)): the view maps a device
\* pixel to the scene point of the same coordinates (an untransformed view).
mapFromDeviceToScene(pointVCS) == << pointVCS[1], pointVCS[2], 1 >>

\* self + fraction * (other - self)
interval(self, other, fraction) ==
  LET n == fraction[1]
      m == fraction[2]
      D == self[3] * other[3] * m
  IN Normalize(self[1] * other[3] * m + n * (other[1] * self[3] - self[1] * other[3]),
               self[2] * other[3] * m + n * (other[2] * self[3] - self[2] * other[3]),
               D)

FracGT(a, b) == a[1] * b[2] > b[1] * a[2]

FracLT(a, b) == a[1] * b[2] < b[1] * a[2]

(***************************************************************************)
(* segmentString/segment.py.  A segment is [kind, start, cp1, cp2, end]:   *)
(* the four control points of a cubic; a LineSegment has both direction    *)
(* points at its midpoint.  Segment.__init__ raises the null segment error *)
(* when startPoint == endPoint; the callers below test it with IsNull.     *)
(***************************************************************************)
\* Mutant: a Segment constructor without the null test.
IsNull_Never(startPoint, endPoint) == FALSE

IsNull(startPoint, endPoint) == startPoint = endPoint

LineSegment(startPoint, endPoint) ==
  LET Segment(midPoint) ==
        [kind |-> "line", start |-> startPoint,
         cp1 |-> midPoint, cp2 |-> midPoint, end |-> endPoint]
  IN Segment(interval(startPoint, endPoint, <<1, 2>>))

CurveSegment(startPoint, controlPoint1, controlPoint2, endPoint) ==
  [kind |-> "curve", start |-> startPoint,
   cp1 |-> controlPoint1, cp2 |-> controlPoint2, end |-> endPoint]

(***************************************************************************)
(* generator/curveGenerator.py.  The segmentsFrom... methods return        *)
(* [segments, pathEndPoint, cuspness, err].                                *)
(***************************************************************************)
\* 1.2
ALPHAMAX == <<6, 5>>

\* ddenom and areaOfParallelogram take mapped device points (denominator 1).
ddenom(p0, p1) ==
  LET r == cardinalDirectionLeft90(p0, p1)
  IN r[2] * (p1[1] - p0[1]) - r[1] * (p1[2] - p0[2])

areaOfParallelogram(p0, p1, p2) ==
  (p1[1] - p0[1]) * (p2[2] - p0[2]) - (p2[1] - p0[1]) * (p1[2] - p0[2])

\* Mutant: alpha is 0 when ddenom is 0.
alphaOf_ZeroDenomSmooth(point1, point2, point3) ==
  LET Alpha(denom, area) ==
        IF denom # 0
          THEN IF Abs(area) > Abs(denom)
                 THEN << 4 * (Abs(area) - Abs(denom)), 3 * Abs(area) >>
                 ELSE << 0, 1 >>
          ELSE << 0, 1 >>
  IN Alpha(ddenom(point1, point3), areaOfParallelogram(point1, point2, point3))

\* alpha as segmentsFromLineMidToMid computes it:
\* dd = |area/denom|; alpha = (1 - 1/dd)/0.75 if dd > 1 else 0; 4/3 if denom = 0
alphaOf(point1, point2, point3) ==
  LET Alpha(denom, area) ==
        IF denom # 0
          THEN IF Abs(area) > Abs(denom)
                 THEN << 4 * (Abs(area) - Abs(denom)), 3 * Abs(area) >>
                 ELSE << 0, 1 >>
          ELSE << 4, 3 >>
  IN Alpha(ddenom(point1, point3), areaOfParallelogram(point1, point2, point3))

\* Mutant: alpha is not clamped from above.
clampAlpha_NoUpper(alpha) ==
  IF FracLT(alpha, <<11, 20>>) THEN <<11, 20>>
  ELSE alpha

clampAlpha(alpha) ==
  IF FracLT(alpha, <<11, 20>>) THEN <<11, 20>>
  ELSE IF FracGT(alpha, <<1, 1>>) THEN <<1, 1>>
  ELSE alpha

Result(segments, pathEndPoint, cuspness) ==
  [segments |-> segments, pathEndPoint |-> pathEndPoint,
   cuspness |-> cuspness, err |-> NoError]

Failure(exception) ==
  [segments |-> <<>>, pathEndPoint |-> None, cuspness |-> <<>>,
   err |-> exception]

\* Mutant: a null first segment drops the second segment with it.
segmentsForCusp_DropsBoth(lastEndPointGenerated_, cuspPoint, endPoint) ==
  IF lastEndPointGenerated_ = None THEN Failure("AttributeError")
  ELSE IF IsNull(lastEndPointGenerated_, cuspPoint)
    THEN Result(<<>>, endPoint, <<>>)
  ELSE IF IsNull(cuspPoint, endPoint)
    THEN Result(<<LineSegment(lastEndPointGenerated_, cuspPoint)>>,
                endPoint, <<FALSE>>)
  ELSE Result(<<LineSegment(lastEndPointGenerated_, cuspPoint),
                LineSegment(cuspPoint, endPoint)>>,
              endPoint, <<TRUE, FALSE>>)

\* LineSegment(None, cuspPoint): None == cuspPoint is false, so no null segment
\* error; startPoint.interval() then fails with an AttributeError, which the
\* except clauses of segmentsForCusp do not catch.
segmentsForCusp(lastEndPointGenerated_, cuspPoint, endPoint) ==
  IF lastEndPointGenerated_ = None THEN Failure("AttributeError")
  ELSE IF IsNull(lastEndPointGenerated_, cuspPoint)
    THEN IF IsNull(cuspPoint, endPoint)
           THEN Result(<<>>, endPoint, <<>>)
           ELSE Result(<<LineSegment(cuspPoint, endPoint)>>, endPoint, <<FALSE>>)
  ELSE IF IsNull(cuspPoint, endPoint)
    THEN Result(<<LineSegment(lastEndPointGenerated_, cuspPoint)>>,
                endPoint, <<FALSE>>)
  ELSE Result(<<LineSegment(lastEndPointGenerated_, cuspPoint),
                LineSegment(cuspPoint, endPoint)>>,
              endPoint, <<TRUE, FALSE>>)

segmentsFromLineMidToMid(lastEndPointGenerated_, line1, line2) ==
  LET point1 == mapFromDeviceToScene(line1.p1)
      point2 == mapFromDeviceToScene(line1.p2)
      point3 == mapFromDeviceToScene(line2.p2)
      Fraction(clamped) == << clamped[2] + clamped[1], 2 * clamped[2] >>
      Curve(midpoint1, midpoint2, fraction) ==
        IF IsNull(midpoint1, midpoint2)
          THEN Failure("FreehandNullSegmentError")
        ELSE Result(<<CurveSegment(midpoint1,
                                   interval(point1, point2, fraction),
                                   interval(point3, point2, fraction),
                                   midpoint2)>>,
                    midpoint2, <<FALSE>>)
      Fit(midpoint1, midpoint2, alpha) ==
        IF FracGT(alpha, ALPHAMAX)
          THEN segmentsForCusp(lastEndPointGenerated_, point2, midpoint2)
        ELSE Curve(midpoint1, midpoint2, Fraction(clampAlpha(alpha)))
  IN Fit(interval(point2, point1, <<1, 2>>),
         interval(point3, point2, <<1, 2>>),
         alphaOf(point1, point2, point3))

\* Mutant: the closing line drawn from the start of line2 instead of from
\* the end point of the mid-to-mid segments.
segmentsFromLineMidToEnd_FromLineStart(lastEndPointGenerated_, line1, line2) ==
  LET finalEndPoint == mapFromDeviceToScene(line2.p2)
      lineStart == mapFromDeviceToScene(line2.p1)
      ToEnd(r) ==
        IF r.err # NoError THEN r
        ELSE IF IsNull(lineStart, finalEndPoint)
          THEN Failure("FreehandNullSegmentError")
        ELSE Result(r.segments \o <<LineSegment(lineStart, finalEndPoint)>>,
                    finalEndPoint, r.cuspness \o <<TRUE>>)
  IN ToEnd(segmentsFromLineMidToMid(lastEndPointGenerated_, line1, line2))

\* Mutant: the cuspness of the closing line returned alone, without the
\* cuspness of the mid-to-mid segments before it.
segmentsFromLineMidToEnd_OneFlag(lastEndPointGenerated_, line1, line2) ==
  LET finalEndPoint == mapFromDeviceToScene(line2.p2)
      ToEnd(r) ==
        IF r.err # NoError THEN r
        ELSE IF IsNull(r.pathEndPoint, finalEndPoint)
          THEN Failure("FreehandNullSegmentError")
        ELSE Result(r.segments \o <<LineSegment(r.pathEndPoint, finalEndPoint)>>,
                    finalEndPoint, <<TRUE>>)
  IN ToEnd(segmentsFromLineMidToMid(lastEndPointGenerated_, line1, line2))

segmentsFromLineMidToEnd(lastEndPointGenerated_, line1, line2) ==
  LET finalEndPoint == mapFromDeviceToScene(line2.p2)
      ToEnd(r) ==
        IF r.err # NoError THEN r
        ELSE IF IsNull(r.pathEndPoint, finalEndPoint)
          THEN Failure("FreehandNullSegmentError")
        ELSE Result(r.segments \o <<LineSegment(r.pathEndPoint, finalEndPoint)>>,
                    finalEndPoint, r.cuspness \o <<TRUE>>)
  IN ToEnd(segmentsFromLineMidToMid(lastEndPointGenerated_, line1, line2))

\* Mutant: the end of line2 is not flagged as a cusp.
segmentsFromLineEndToEnd_NotCusp(line1, line2) ==
  LET startPoint == mapFromDeviceToScene(line1.p2)
      endPoint == mapFromDeviceToScene(line2.p2)
  IN IF IsNull(startPoint, endPoint) THEN Failure("FreehandNullSegmentError")
     ELSE Result(<<LineSegment(startPoint, endPoint)>>, endPoint, <<FALSE>>)

segmentsFromLineEndToEnd(line1, line2) ==
  LET startPoint == mapFromDeviceToScene(line1.p2)
      endPoint == mapFromDeviceToScene(line2.p2)
  IN IF IsNull(startPoint, endPoint) THEN Failure("FreehandNullSegmentError")
     ELSE Result(<<LineSegment(startPoint, endPoint)>>, endPoint, <<TRUE>>)

(***************************************************************************)
(* The pipe.  One pointer event runs through the generators synchronously; *)
(* the record P carries their state through the call chain:                *)
(*   history, reversalDetector      TurnGenerator's locals                 *)
(*   turnHistory, constraints       LineGenerator's locals                 *)
(*   curveHistory                   CurveGenerator's local history         *)
(*   lastEndPointGenerated          FreehandTool's cache                   *)
(*   path, cuspness                 the SegmentString (sink)               *)
(*   turnsSent, linesSent, batches  what this event sent to each stage     *)
(*   err                            the exception that escaped, if any     *)
(***************************************************************************)

\* SegmentString.appendSegments: nothing for an empty list; else each segment
\* is appended with the cuspness flag of its ordinal.
appendSegments(P, segments, segmentCuspness) ==
  IF Len(segments) <= 0 THEN P
  ELSE IF Len(segmentCuspness) < Len(segments) THEN Raise(P, "IndexError")
  ELSE [P EXCEPT !.path = @ \o segments,
                 !.cuspness = @ \o SubSeq(segmentCuspness, 1, Len(segments))]

\* Mutant: the segments are appended and the cache is left as it was.
_putSegments_NoCache(P, r, isLineForced) ==
  appendSegments(
    [P EXCEPT !.batches = Append(@, [segments |-> r.segments,
                                     cuspness |-> r.cuspness,
                                     forced |-> isLineForced])],
    r.segments, r.cuspness)

\* CurveGeneratorMixin._putSegments
_putSegments(P, r, isLineForced) ==
  LET Cache(P1) ==
        IF P1.err # NoError THEN P1
        ELSE [P1 EXCEPT !.lastEndPointGenerated = r.pathEndPoint]
  IN Cache(appendSegments(
             [P EXCEPT !.batches = Append(@, [segments |-> r.segments,
                                              cuspness |-> r.cuspness,
                                              forced |-> isLineForced])],
             r.segments, r.cuspness))

\* Mutant: a forced line met with nothing pending is fitted end to end even
\* when it is null.
CurveGenerator_NoFlushedCase(P, newPathLine, isLineForced) ==
  LET Put(P0, r, newEnd) ==
        IF r.err # NoError THEN Raise(P0, r.err)
        ELSE _putSegments([P0 EXCEPT !.curveHistory = updateEnd(@, newEnd)],
                          r, isLineForced)
      Body(P0) ==
        IF isLineForced
          THEN IF isNullPathLine(P0.curveHistory.end)
                 THEN Put(P0,
                          segmentsFromLineEndToEnd(P0.curveHistory.end,
                                                   newPathLine),
                          nullPathLine(newPathLine.p2))
               ELSE Put(P0,
                        segmentsFromLineMidToEnd(P0.lastEndPointGenerated,
                                                 P0.curveHistory.end,
                                                 newPathLine),
                        nullPathLine(newPathLine.p2))
        ELSE Put(P0,
                 segmentsFromLineMidToMid(P0.lastEndPointGenerated,
                                          P0.curveHistory.end, newPathLine),
                 newPathLine)
  IN Body([P EXCEPT !.linesSent = Append(@, [line |-> newPathLine,
                                             forced |-> isLineForced])])

\* Body of the loop of CurveGeneratorMixin.CurveGenerator for one send().
CurveGenerator(P, newPathLine, isLineForced) ==
  LET Put(P0, r, newEnd) ==
        IF r.err # NoError THEN Raise(P0, r.err)
        ELSE _putSegments([P0 EXCEPT !.curveHistory = updateEnd(@, newEnd)],
                          r, isLineForced)
      Body(P0) ==
        IF isLineForced
          THEN IF isNullPathLine(P0.curveHistory.end)
                 THEN IF isNullPathLine(newPathLine) THEN P0
                      ELSE Put(P0,
                               segmentsFromLineEndToEnd(P0.curveHistory.end,
                                                        newPathLine),
                               nullPathLine(newPathLine.p2))
               ELSE Put(P0,
                        segmentsFromLineMidToEnd(P0.lastEndPointGenerated,
                                                 P0.curveHistory.end,
                                                 newPathLine),
                        nullPathLine(newPathLine.p2))
        ELSE Put(P0,
                 segmentsFromLineMidToMid(P0.lastEndPointGenerated,
                                          P0.curveHistory.end, newPathLine),
                 newPathLine)
  IN Body([P EXCEPT !.linesSent = Append(@, [line |-> newPathLine,
                                             forced |-> isLineForced])])

\* CurveGeneratorMixin.flushCurveGenerator
flushCurveGenerator(P) ==
  IF isNullPathLine(P.curveHistory.end) THEN P
  ELSE Raise(P, "AssertionError")

(***************************************************************************)
(* generator/lineGenerator.py                                              *)
(***************************************************************************)
_interpolateConstraintViolating(history) == PathLine(history.start, history.end)

\* Mutant: a split that keeps the violated funnel.
_lineFromPath_KeepsFunnel(history, currentTurn, constraints_) ==
  LET vectorViaAllTurns == PointMinus(currentTurn, history.start)
  IN IF isViolatedBy(constraints_, vectorViaAllTurns)
       THEN [line |-> _interpolateConstraintViolating(history),
             constraints |-> constraints_]
       ELSE [line |-> None,
             constraints |-> update(constraints_, vectorViaAllTurns)]

\* [line, constraints]: line is None when the turn is deferred.
_lineFromPath(history, currentTurn, constraints_) ==
  LET vectorViaAllTurns == PointMinus(currentTurn, history.start)
  IN IF isViolatedBy(constraints_, vectorViaAllTurns)
       THEN [line |-> _interpolateConstraintViolating(history),
             constraints |-> Constraints]
       ELSE [line |-> None,
             constraints |-> update(constraints_, vectorViaAllTurns)]

\* Mutant: on a reversal in the turns the pending line is sent and history
\* is rolled (the alternative the source keeps in a string literal).
_forcedLineFromPath_Rolls(history, currentTurn) ==
  [line |-> IF history.start = currentTurn
              THEN PathLine(history.start, history.end)
              ELSE PathLine(history.start, currentTurn),
   history |-> IF history.start = currentTurn
                 THEN roll(history)
                 ELSE collapse(history, currentTurn),
   constraints |-> Constraints]

\* Mutant: the forced line is drawn from the last turn, not from the start
\* of the run.
_forcedLineFromPath_FromEnd(history, currentTurn) ==
  [line |-> IF history.start = currentTurn
              THEN nullPathLine(currentTurn)
              ELSE PathLine(history.end, currentTurn),
   history |-> collapse(history, currentTurn),
   constraints |-> Constraints]

\* [line, history, constraints]
_forcedLineFromPath(history, currentTurn) ==
  [line |-> IF history.start = currentTurn
              THEN nullPathLine(currentTurn)
              ELSE PathLine(history.start, currentTurn),
   history |-> collapse(history, currentTurn),
   constraints |-> Constraints]

\* Mutant: a forced line that goes downstream marked non-forced.
_sendForcedLine_Unforced(P, line) == CurveGenerator(P, line, FALSE)

_sendForcedLine(P, line) == CurveGenerator(P, line, TRUE)

_flushUpToNewTurn(P, newTurn) ==
  LET Send(f) ==
        _sendForcedLine([P EXCEPT !.turnHistory = f.history,
                                  !.constraints = f.constraints],
                        f.line)
  IN Send(_forcedLineFromPath(P.turnHistory, newTurn))

\* Body of the loop of LineGeneratorMixin.LineGenerator for one send().
LineGenerator(P, newTurn, isForced) ==
  LET Roll(P2) ==
        IF P2.err # NoError THEN P2
        ELSE [P2 EXCEPT !.turnHistory = updateEnd(roll(@), newTurn)]
      Fit(P0, l) ==
        IF l.line # None
          THEN Roll(CurveGenerator([P0 EXCEPT !.constraints = l.constraints],
                                   l.line, FALSE))
        ELSE [P0 EXCEPT !.constraints = l.constraints,
                        !.turnHistory = updateEnd(@, newTurn)]
      Body(P0) ==
        IF isForced THEN _flushUpToNewTurn(P0, newTurn)
        ELSE Fit(P0, _lineFromPath(P0.turnHistory, newTurn, P0.constraints))
  IN Body([P EXCEPT !.turnsSent = Append(@, [turn |-> newTurn,
                                             forced |-> isForced])])

\* Mutant: a flush handler that collapses turnHistory on its end before
\* it sends the forced line.
flushLineGenerator_Collapsing(P) ==
  IF ~isCollapsed(P.turnHistory)
    THEN _sendForcedLine(
           [P EXCEPT !.turnHistory = collapse(@, P.turnHistory.end)],
           PathLine(P.turnHistory.start, P.turnHistory.end))
    ELSE _sendForcedLine(P, nullPathLine(P.turnHistory.end))

\* Mutant: the alternative design of the source's note, a normal line and
\* then a forcing null line.
flushLineGenerator_TwoLines(P) ==
  LET Null(P1) ==
        IF P1.err # NoError THEN P1
        ELSE _sendForcedLine(P1, nullPathLine(P.turnHistory.end))
  IN IF ~isCollapsed(P.turnHistory)
       THEN Null(CurveGenerator(P, PathLine(P.turnHistory.start,
                                            P.turnHistory.end), FALSE))
       ELSE Null(P)

flushLineGenerator(P) ==
  IF ~isCollapsed(P.turnHistory)
    THEN _sendForcedLine(P, PathLine(P.turnHistory.start, P.turnHistory.end))
    ELSE _sendForcedLine(P, nullPathLine(P.turnHistory.end))

(***************************************************************************)
(* generator/turnGenerator.py                                              *)
(***************************************************************************)
\* detectTurn: the detector's isDiagonal / reset / detect.
detectTurn(d, position) ==
  IF isPositionDiagonal(d.axis, position)
    THEN [det |-> _resetToAxisUnknown(d, position), result |-> position]
    ELSE detect(d, position)

\* The non-forced body of the loop of TurnGenerator: the turn goes downstream
\* with positionElapsedTime in the place of the forced flag (line 50), so the
\* line generator's "if isForced" sees a forced turn whenever the clock
\* advanced between the two positions.
TurnGeneratorPosition(P, newPosition, positionElapsedTime) ==
  LET Collapse(P2) ==
        IF P2.err # NoError THEN P2
        ELSE [P2 EXCEPT !.history = collapse(@, newPosition)]
      Body(r) ==
        IF r.det.err # NoError
          THEN Raise([P EXCEPT !.reversalDetector = r.det], r.det.err)
        ELSE IF r.result # None
          THEN Collapse(LineGenerator([P EXCEPT !.reversalDetector = r.det],
                                      r.result, positionElapsedTime # 0))
        ELSE [P EXCEPT !.reversalDetector = r.det,
                       !.history = updateEnd(@, newPosition)]
  IN Body(detectTurn(P.reversalDetector, newPosition))

\* The forced input (position, True) of FreehandTool.handleTimeout: sent
\* downstream unconditionally, history collapsed on the position.
TurnGeneratorForced(P, newPosition) ==
  LET Collapse(P1) ==
        IF P1.err # NoError THEN P1
        ELSE [P1 EXCEPT !.history = collapse(@, newPosition)]
  IN Collapse(LineGenerator(P, newPosition, TRUE))

\* Mutant: a close that sends no turn for the unsent trailing position.
flushTurnGenerator_NoSend(P) == P

\* send((history.end, 0)): 0 is false for the line generator's "if isForced"
flushTurnGenerator(P) ==
  IF ~isCollapsed(P.history) THEN LineGenerator(P, P.history.end, 0 # 0)
  ELSE P

(***************************************************************************)
(* freehand.py: FreehandTool                                               *)
(***************************************************************************)
\* _closeFilterPipe: close() of the three generators in pipeline order; an
\* exception escaping one close() skips the ones after it.
_closeFilterPipe(P) ==
  LET CloseCurve(P2) ==
        IF P2.err # NoError THEN P2 ELSE flushCurveGenerator(P2)
      CloseLine(P1) ==
        IF P1.err # NoError THEN P1 ELSE flushLineGenerator(P1)
  IN CloseCurve(CloseLine(flushTurnGenerator(P)))

(***************************************************************************)
(* State.                                                                  *)
(***************************************************************************)
VARIABLES
  wasSetSegment,          \* FreehandTool._wasSetSegment
  wasPointerPress,        \* FreehandTool._wasPointerPress
  wasPointerMove,         \* FreehandTool._wasPointerMove (isGenerating)
  timerActive,            \* FreehandTool.timer.isActive()
  lastSentPosition,       \* FreehandTool.lastSentPosition
  lastEndPointGenerated,  \* FreehandTool.lastEndPointGenerated
  pipe,                   \* "none", "open" (generators suspended at yield),
                          \* "closed" or "broken" (an exception ended them)
  history,                \* TurnGenerator: history
  reversalDetector,       \* TurnGenerator: the turn detector
  turnHistory,            \* LineGenerator: turnHistory
  constraints,            \* LineGenerator: self.constraints
  curveHistory,           \* CurveGenerator: history
  path,                   \* SegmentString: its segments, in order
  cuspness,               \* SegmentString: cuspness flag of each segment
  turnsSent,              \* turns sent to the line generator by the last event
  linesSent,              \* lines sent to the curve generator by the last event
  batches,                \* _putSegments calls of the last event
  error,                  \* exception that escaped the last event handler
  lastEvent,              \* the last event handled
  samples,                \* number of pointerMoveEvents handled
  track,                  \* history variable: the positions sent into the
                          \* pipe so far (SpecAxis only)
  turns                   \* history variable: the turns the detector reported
                          \* so far (SpecAxis only)

vars == << wasSetSegment, wasPointerPress, wasPointerMove, timerActive,
           lastSentPosition, lastEndPointGenerated, pipe, history,
           reversalDetector, turnHistory, constraints, curveHistory, path,
           cuspness, turnsSent, linesSent, batches, error, lastEvent, samples,
           track, turns >>

\* Clock readings of positionClock.restart(): no time elapsed, or some.
ElapsedTimes == {0, 1}

\* Press positions of the strokes explored by Spec.
StartPositions == { <<0, 0>>, <<1, 1>> }

\* Positions of the strokes explored by SpecAxis: the row and the column
\* through the press position <<0, 0>>.
AxisPositions ==
  { <<x, 0>> : x \in 0..MaxAxis } \cup { <<0, y>> : y \in 0..MaxY }

\* The pipe record at the start of an event.
Pipe ==
  [history |-> history, reversalDetector |-> reversalDetector,
   turnHistory |-> turnHistory, constraints |-> constraints,
   curveHistory |-> curveHistory,
   lastEndPointGenerated |-> lastEndPointGenerated,
   path |-> path, cuspness |-> cuspness,
   turnsSent |-> <<>>, linesSent |-> <<>>, batches |-> <<>>,
   err |-> NoError]

\* The state the event leaves behind, except the tool's flags.
SetPipe(P) ==
  /\ history' = P.history
  /\ reversalDetector' = P.reversalDetector
  /\ turnHistory' = P.turnHistory
  /\ constraints' = P.constraints
  /\ curveHistory' = P.curveHistory
  /\ path' = P.path
  /\ cuspness' = P.cuspness
  /\ turnsSent' = P.turnsSent
  /\ linesSent' = P.linesSent
  /\ batches' = P.batches
  /\ error' = P.err

\* FreehandTool.__init__: _resetState, createTimer; no path, no generators.
Init ==
  /\ wasSetSegment = FALSE
  /\ wasPointerPress = FALSE
  /\ wasPointerMove = FALSE
  /\ timerActive = FALSE
  /\ lastSentPosition = None
  /\ lastEndPointGenerated = None
  /\ pipe = "none"
  /\ history = None
  /\ reversalDetector = None
  /\ turnHistory = None
  /\ constraints = None
  /\ curveHistory = None
  /\ path = <<>>
  /\ cuspness = <<>>
  /\ turnsSent = <<>>
  /\ linesSent = <<>>
  /\ batches = <<>>
  /\ error = NoError
  /\ lastEvent = "create"
  /\ samples = 0
  /\ track = <<>>
  /\ turns = <<>>

\* One use of the tool is modelled: setSegmentString, press, moves, release.
setSegmentString ==
  /\ error = NoError
  /\ pipe = "none"
  /\ ~wasSetSegment
  /\ wasSetSegment' = TRUE
  /\ path' = <<>>
  /\ cuspness' = <<>>
  /\ lastEvent' = "setSegmentString"
  /\ UNCHANGED << wasPointerPress, wasPointerMove, timerActive,
                  lastSentPosition, lastEndPointGenerated, pipe, history,
                  reversalDetector, turnHistory, constraints, curveHistory,
                  turnsSent, linesSent, batches, error, samples, track,
                  turns >>

\* pointerPressEvent -> _initFilterPipe(startPosition)
Press(positions) ==
  /\ error = NoError
  /\ ~wasPointerPress
  /\ wasSetSegment
  /\ \E startPosition \in positions :
       /\ history' = History(startPosition)
       /\ reversalDetector' = ReverseDetector(startPosition)
       /\ turnHistory' = History(startPosition)
       /\ constraints' = Constraints
       /\ curveHistory' = History(nullPathLine(startPosition))
  /\ pipe' = "open"
  /\ wasPointerMove' = TRUE
  /\ wasPointerPress' = TRUE
  /\ turnsSent' = <<>>
  /\ linesSent' = <<>>
  /\ batches' = <<>>
  /\ lastEvent' = "press"
  /\ UNCHANGED << wasSetSegment, timerActive, lastSentPosition,
                  lastEndPointGenerated, path, cuspness, error, samples,
                  track, turns >>

\* pointerMoveEvent: turnGenerator.send((position, False)), restartTimer(position)
Move(positions, bound, record) ==
  /\ error = NoError
  /\ wasPointerPress
  /\ samples < bound
  /\ \E position \in positions, positionElapsedTime \in ElapsedTimes :
       LET Effect(P) ==
          /\ SetPipe(P)
          /\ lastEndPointGenerated' = P.lastEndPointGenerated
          /\ IF P.err = NoError
               THEN /\ lastSentPosition' = position
                    /\ timerActive' = TRUE
                    /\ pipe' = pipe
               ELSE /\ UNCHANGED << lastSentPosition, timerActive >>
                    /\ pipe' = "broken"
          /\ track' = IF record
                        THEN Append(track, position)
                        ELSE track
          /\ turns' = IF record
                        THEN turns \o [i \in 1..Len(P.turnsSent) |->
                                         P.turnsSent[i].turn]
                        ELSE turns
       IN Effect(TurnGeneratorPosition(Pipe, position, positionElapsedTime))
  /\ wasPointerMove' = TRUE
  /\ samples' = samples + 1
  /\ lastEvent' = "move"
  /\ UNCHANGED << wasSetSegment, wasPointerPress >>

\* handleTimeout: the single-shot timer fired;
\* turnGenerator.send((lastSentPosition, True))
handleTimeout ==
  /\ error = NoError
  /\ timerActive
  /\ LET Effect(P) ==
           /\ SetPipe(P)
           /\ lastEndPointGenerated' = P.lastEndPointGenerated
           /\ pipe' = IF P.err = NoError THEN pipe ELSE "broken"
     IN Effect(TurnGeneratorForced(Pipe, lastSentPosition))
  /\ timerActive' = FALSE
  /\ lastEvent' = "timeout"
  /\ UNCHANGED << wasSetSegment, wasPointerPress, wasPointerMove,
                  lastSentPosition, samples, track, turns >>

\* pointerReleaseEvent: stopTimer, _closeFilterPipe (isGenerating), _resetState
pointerReleaseEvent ==
  /\ error = NoError
  /\ wasPointerPress
  /\ timerActive' = FALSE
  /\ LET Effect(P) ==
        /\ SetPipe(P)
        /\ IF P.err = NoError
             THEN /\ pipe' = IF wasPointerMove THEN "closed" ELSE pipe
                  /\ wasSetSegment' = FALSE
                  /\ wasPointerPress' = FALSE
                  /\ wasPointerMove' = FALSE
                  /\ lastEndPointGenerated' = None
             ELSE /\ pipe' = "broken"
                  /\ lastEndPointGenerated' = P.lastEndPointGenerated
                  /\ UNCHANGED << wasSetSegment, wasPointerPress,
                                  wasPointerMove >>
     IN Effect(IF wasPointerMove THEN _closeFilterPipe(Pipe) ELSE Pipe)
  /\ lastEvent' = "release"
  /\ UNCHANGED << lastSentPosition, samples, track, turns >>

pointerPressEvent == Press(StartPositions)

pointerMoveEvent == Move(Grid, MaxSamples, FALSE)

Next ==
  \/ setSegmentString
  \/ pointerPressEvent
  \/ pointerMoveEvent
  \/ handleTimeout
  \/ pointerReleaseEvent

Spec == Init /\ [][Next]_vars

(***************************************************************************)
(* SpecAxis: strokes without a pause, pressed at <<0, 0>>, whose samples   *)
(* stay on the row and the column through it; the positions sent and the   *)
(* turns detected are recorded in track and turns.                         *)
(***************************************************************************)
pointerPressEventAxis == Press({ <<0, 0>> })

pointerMoveEventAxis == Move(AxisPositions, MaxAxisSamples, TRUE)

NextAxis ==
  \/ setSegmentString
  \/ pointerPressEventAxis
  \/ pointerMoveEventAxis
  \/ pointerReleaseEvent

SpecAxis == Init /\ [][NextAxis]_vars

(***************************************************************************)
(* SpecCurve: the curve generator stage driven alone.  After the press,    *)
(* the PathLines the line generator may send are enumerated: each starts   *)
(* where the previous one ended (turnHistory.start after roll() or         *)
(* collapse()), ends at a point of CurvePoints and is forced or not.       *)
(***************************************************************************)
CurvePoints == {0, 5, 10} \X {0, 5, 10}

pointerPressEventCurve == Press(CurvePoints)

\* self.curveGenerator.send((line, isForced)) of LineGenerator and of
\* _sendForcedLine
curveGeneratorSend ==
  /\ error = NoError
  /\ wasPointerPress
  /\ samples < MaxLines
  /\ \E point2 \in CurvePoints, isLineForced \in BOOLEAN :
       LET Effect(P) ==
             /\ SetPipe(P)
             /\ lastEndPointGenerated' = P.lastEndPointGenerated
             /\ pipe' = IF P.err = NoError THEN pipe ELSE "broken"
       IN Effect(CurveGenerator(Pipe,
                                PathLine(curveHistory.end.p2, point2),
                                isLineForced))
  /\ samples' = samples + 1
  /\ lastEvent' = "send"
  /\ UNCHANGED << wasSetSegment, wasPointerPress, wasPointerMove,
                  timerActive, lastSentPosition, track, turns >>

NextCurve ==
  \/ setSegmentString
  \/ pointerPressEventCurve
  \/ curveGeneratorSend

SpecCurve == Init /\ [][NextCurve]_vars

(***************************************************************************)
(* SpecPause: strokes with pauses, pressed at <<1, 1>>, of up to           *)
(* MaxPauseSamples samples taken from three positions.                     *)
(***************************************************************************)
PausePositions == { <<0, 0>>, <<0, 1>>, <<2, 0>> }

pointerPressEventPause == Press({ <<1, 1>> })

pointerMoveEventPause == Move(PausePositions, MaxPauseSamples, FALSE)

NextPause ==
  \/ setSegmentString
  \/ pointerPressEventPause
  \/ pointerMoveEventPause
  \/ handleTimeout
  \/ pointerReleaseEvent

SpecPause == Init /\ [][NextPause]_vars

(***************************************************************************)
(* SpecAPI: Spec with the calls outside the API algebra                    *)
(*   use := setSegmentString pointerPressEvent pointerMoveEvent*           *)
(*          pointerReleaseEvent                                            *)
(* An assertion that fails leaves "AssertionError" in error.               *)
(***************************************************************************)
\* The generators, their locals and the sink.
pipeState == << pipe, history, reversalDetector, turnHistory, constraints,
                curveHistory, lastEndPointGenerated, path, cuspness >>

\* The API flags, the timer and the bookkeeping of the model.
toolState == << wasSetSegment, wasPointerPress, wasPointerMove, timerActive,
                lastSentPosition, samples, track, turns >>

\* Mutant: the timer is restarted before the press flag is tested.
pointerMoveEventIgnored_RestartsTimer ==
  /\ error = NoError
  /\ ~wasPointerPress
  /\ timerActive' = TRUE
  /\ turnsSent' = <<>>
  /\ linesSent' = <<>>
  /\ batches' = <<>>
  /\ lastEvent' = "move"
  /\ UNCHANGED << pipeState, wasSetSegment, wasPointerPress, wasPointerMove,
                  lastSentPosition, samples, track, turns, error >>

\* pointerMoveEvent: "if not self._wasPointerPress: return"
pointerMoveEventIgnored ==
  /\ error = NoError
  /\ ~wasPointerPress
  /\ turnsSent' = <<>>
  /\ linesSent' = <<>>
  /\ batches' = <<>>
  /\ lastEvent' = "move"
  /\ UNCHANGED << pipeState, toolState, error >>

\* pointerPressEvent: one of its two assertions fails.
pointerPressEventRejected ==
  /\ error = NoError
  /\ wasPointerPress \/ ~wasSetSegment
  /\ error' = "AssertionError"
  /\ turnsSent' = <<>>
  /\ linesSent' = <<>>
  /\ batches' = <<>>
  /\ lastEvent' = "press"
  /\ UNCHANGED << pipeState, toolState >>

\* Mutant: a release without a press that returns quietly.
pointerReleaseEventRejected_Quiet ==
  /\ error = NoError
  /\ ~wasPointerPress
  /\ turnsSent' = <<>>
  /\ linesSent' = <<>>
  /\ batches' = <<>>
  /\ lastEvent' = "release"
  /\ UNCHANGED << pipeState, toolState, error >>

\* pointerReleaseEvent: "assert self._wasPointerPress" fails.
pointerReleaseEventRejected ==
  /\ error = NoError
  /\ ~wasPointerPress
  /\ error' = "AssertionError"
  /\ turnsSent' = <<>>
  /\ linesSent' = <<>>
  /\ batches' = <<>>
  /\ lastEvent' = "release"
  /\ UNCHANGED << pipeState, toolState >>

NextAPI ==
  \/ Next
  \/ pointerMoveEventIgnored
  \/ pointerPressEventRejected
  \/ pointerReleaseEventRejected

SpecAPI == Init /\ [][NextAPI]_vars

(***************************************************************************)
(* SpecCusp: segmentsForCusp alone, called up to MaxCuspCalls times in a   *)
(* stroke that has a path tail, on every cusp point and end point of the   *)
(* grid; each call's segments are put on the path as _putSegments does.    *)
(* track holds the arguments <<cuspPoint, endPoint>> of the last call.     *)
(***************************************************************************)
ScenePoints == { mapFromDeviceToScene(pointVCS) : pointVCS \in Grid }

InitCusp ==
  /\ wasSetSegment = TRUE
  /\ wasPointerPress = TRUE
  /\ wasPointerMove = TRUE
  /\ timerActive = FALSE
  /\ lastSentPosition = None
  /\ lastEndPointGenerated \in ScenePoints
  /\ pipe = "open"
  /\ history = History(<<0, 0>>)
  /\ reversalDetector = ReverseDetector(<<0, 0>>)
  /\ turnHistory = History(<<0, 0>>)
  /\ constraints = Constraints
  /\ curveHistory = History(nullPathLine(<<0, 0>>))
  /\ path = <<>>
  /\ cuspness = <<>>
  /\ turnsSent = <<>>
  /\ linesSent = <<>>
  /\ batches = <<>>
  /\ error = NoError
  /\ lastEvent = "press"
  /\ samples = 0
  /\ track = <<>>
  /\ turns = <<>>

segmentsForCuspCall ==
  /\ error = NoError
  /\ samples < MaxCuspCalls
  /\ \E cuspPoint \in ScenePoints, endPoint \in ScenePoints :
       LET Effect(P) ==
             /\ SetPipe(P)
             /\ lastEndPointGenerated' = P.lastEndPointGenerated
             /\ pipe' = IF P.err = NoError THEN pipe ELSE "broken"
           Put(r) ==
             IF r.err # NoError THEN Raise(Pipe, r.err)
             ELSE _putSegments(Pipe, r, FALSE)
       IN /\ Effect(Put(segmentsForCusp(lastEndPointGenerated, cuspPoint,
                                        endPoint)))
          /\ track' = << cuspPoint, endPoint >>
  /\ samples' = samples + 1
  /\ lastEvent' = "cusp"
  /\ UNCHANGED << wasSetSegment, wasPointerPress, wasPointerMove,
                  timerActive, lastSentPosition, turns >>

NextCusp == segmentsForCuspCall

SpecCusp == InitCusp /\ [][NextCusp]_vars

(***************************************************************************)
(* Properties.                                                             *)
(***************************************************************************)
\* The last batch the curve generator pushed during the last event.
LastBatch == batches[Len(batches)]

\* The position the stroke was pressed at: the curve generator's
\* history.start stays the null PathLine of the initial position.
startPosition == curveHistory.start.p1

\* The stroke was closed: pointerReleaseEvent returned without an exception.
Closed == lastEvent = "release" /\ error = NoError

\* C1: the segments delivered to the sink form a contiguous path: each
\* segment starts where the segment emitted immediately before it ended,
\* within a batch and across batches.
C1_PathContiguous ==
  \A i \in 2..Len(path) : path[i].start = path[i - 1].end

\* A path grown by two events, the later one adding two segments (a curve
\* and its closing line) to what the earlier one emitted.
C1_Witness ==
  /\ batches # <<>>
  /\ Len(LastBatch.segments) = 2
  /\ Len(path) > 2
  /\ \E i \in 1..Len(path) : path[i].kind = "curve"

\* C2: no segment delivered to the sink has its start point equal to its
\* end point.
C2_NoNullSegmentInPath ==
  \A i \in 1..Len(path) : path[i].start # path[i].end

\* A path holding both a line and a curve, after a close.
C2_Witness ==
  /\ lastEvent = "release"
  /\ \E i, j \in 1..Len(path) :
       path[i].kind = "line" /\ path[j].kind = "curve"

\* C3: every batch the curve generator pushes to the sink carries one
\* cuspness flag per segment, for non-forced, forced and closing inputs.
C3_BatchListsSameLength ==
  /\ \A i \in 1..Len(batches) :
       Len(batches[i].cuspness) = Len(batches[i].segments)
  /\ Len(cuspness) = Len(path)

\* A forced batch of two segments and a non-forced batch, in one event.
C3_Witness ==
  /\ Len(batches) >= 2
  /\ \E i, j \in 1..Len(batches) :
       /\ batches[i].forced /\ Len(batches[i].segments) = 2
       /\ ~batches[j].forced /\ Len(batches[j].segments) >= 1

C5_PathEndsAtLastPosition ==
  (Closed /\ path # <<>>) =>
     path[Len(path)].end = mapFromDeviceToScene(lastSentPosition)

\* The pipe as a pause flush at position P must leave it: the histories of
\* the turn generator and the line generator collapsed on P, the funnel
\* reset, the curve generator's pending line the null PathLine at P, the
\* path ending at P (or still empty, with P the start position), and the
\* generators still open for further samples.
PipeEmptiedAt(P) ==
  /\ error = NoError
  /\ pipe = "open"
  /\ history = collapse(history, P)
  /\ turnHistory = collapse(turnHistory, P)
  /\ constraints = Constraints
  /\ curveHistory.end = nullPathLine(P)
  /\ IF path = <<>> THEN P = startPosition
                    ELSE path[Len(path)].end = mapFromDeviceToScene(P)

\* The segments already emitted are a prefix of the path after the step.
EmittedSegmentsKept ==
  /\ Len(path') >= Len(path)
  /\ SubSeq(path', 1, Len(path)) = path
  /\ SubSeq(cuspness', 1, Len(cuspness)) = cuspness

C7_NoNullSegmentErrorEscapes ==
  error # "FreehandNullSegmentError"

\* C8 as stated: close leaves the History of the turn generator, of the line
\* generator and of the curve generator collapsed.
C8_HistoriesCollapsedAfterClose ==
  Closed =>
     /\ isCollapsed(history)
     /\ isCollapsed(turnHistory)
     /\ isCollapsed(curveHistory)

\* The step is the handling of a pointerReleaseEvent.
ReleaseStep == lastEvent # "release" /\ lastEvent' = "release"

\* C8 amended: close collapses no History, it abandons them: the turn
\* generator's History is left as the last sample left it, the line
\* generator's History as the last turn it received left it (its flush
\* handler does not update it), and the curve generator's History keeps the
\* null line at the start position as its start.
C8_CloseAbandonsHistories ==
  [][ReleaseStep =>
       /\ history' = history
       /\ turnHistory' = flushTurnGenerator(Pipe).turnHistory
       /\ curveHistory'.start = nullPathLine(startPosition)]_vars

\* A closed stroke with none of the three Histories collapsed.
C8_Witness ==
  /\ Closed
  /\ ~isCollapsed(history)
  /\ ~isCollapsed(turnHistory)
  /\ ~isCollapsed(curveHistory)
  /\ path # <<>>

\* C9: the pipe is closed in order, each closing flush handled by the next
\* stage before that stage is closed, so that every close runs to its end
\* and finds the curve generator's history.end a null PathLine.
C9_CurveHistoryEndNullAtClose ==
  lastEvent = "release" =>
     /\ error = NoError
     /\ isNullPathLine(curveHistory.end)

\* The streams of C10, after the detector's initial position <<0, 0>>.
GrowthThenOneBack == << <<1, 0>>, <<2, 0>>, <<3, 0>>, <<2, 0>> >>

GrowthThenTwoBack == << <<1, 0>>, <<2, 0>>, <<3, 0>>, <<1, 0>> >>

\* C10 as stated: given the stream <<0, 0>>, <<1, 0>>, <<2, 0>>, <<3, 0>>,
\* <<2, 0>>, the detector reports the turn <<3, 0>> once, and no other turn.
C10_TurnAfterOneUnitBack ==
  track = GrowthThenOneBack => turns = << <<3, 0>> >>

\* C10 amended: on that stream the detector reports no turn, the retreat of
\* one unit being absorbed as jitter; on the stream that ends with <<1, 0>>
\* instead, a retreat of two units, it reports the turn <<3, 0>> exactly
\* once, when <<1, 0>> arrives and not before, and no turn at <<1, 0>>.
C10_TurnAfterTwoUnitsBack ==
  /\ track = GrowthThenOneBack => turns = <<>>
  /\ track = SubSeq(GrowthThenTwoBack, 1, 3) => turns = <<>>
  /\ track = GrowthThenTwoBack => turns = << <<3, 0>> >>

\* The stream with the retreat of two units has been sent, and the turn at
\* <<3, 0>> went to the line generator in that last event.
C10_Witness ==
  /\ track = GrowthThenTwoBack
  /\ turns = << <<3, 0>> >>
  /\ Len(turnsSent) = 1
  /\ turnsSent[1].turn = <<3, 0>>

\* line2 starts where line1 ends and runs back along it (a 180 degree bend).
CollinearReversal(line1, line2) ==
  /\ ~isNullPathLine(line1)
  /\ ~isNullPathLine(line2)
  /\ line2.p1 = line1.p2
  /\ crossProduct(PointMinus(line1.p2, line1.p1),
                  PointMinus(line2.p2, line2.p1)) = 0
  /\ (line1.p2[1] - line1.p1[1]) * (line2.p2[1] - line2.p1[1])
       + (line1.p2[2] - line1.p1[2]) * (line2.p2[2] - line2.p1[2]) < 0

\* The step sends a non-forced PathLine that reverses the non-forced
\* PathLine the curve generator holds in history.end.
ReversalSent ==
  /\ lastEvent' = "send"
  /\ ~linesSent'[1].forced
  /\ CollinearReversal(curveHistory.end, linesSent'[1].line)

\* C11: whenever a non-forced PathLine runs back along the previous
\* non-forced PathLine, the curve generator emits two straight Segments with
\* cuspness <<TRUE, FALSE>>, never a single cubic.
C11_ReversalYieldsCusp ==
  [][ReversalSent =>
       /\ error' = NoError
       /\ Len(batches') = 1
       /\ Len(batches'[1].segments) = 2
       /\ batches'[1].segments[1].kind = "line"
       /\ batches'[1].segments[2].kind = "line"
       /\ batches'[1].cuspness = <<TRUE, FALSE>>]_vars

\* The FreehandPoint lies on the PathLine, between its ends.
OnPathLine(point, line) ==
  /\ (line.p2[1] - line.p1[1]) * (point[2] - line.p1[2] * point[3])
       = (line.p2[2] - line.p1[2]) * (point[1] - line.p1[1] * point[3])
  /\ \A i \in 1..2 :
       \/ /\ line.p1[i] * point[3] <= point[i]
          /\ point[i] <= line.p2[i] * point[3]
       \/ /\ line.p2[i] * point[3] <= point[i]
          /\ point[i] <= line.p1[i] * point[3]

\* The step sends the non-forced PathLine (10,0)-(10,10) to a curve
\* generator that holds the non-forced PathLine (0,0)-(10,0).
SmoothBendSent ==
  /\ lastEvent' = "send"
  /\ curveHistory.end = PathLine(<<0, 0>>, <<10, 0>>)
  /\ linesSent' = << [line |-> PathLine(<<10, 0>>, <<10, 10>>),
                      forced |-> FALSE] >>

\* C12: for PathLines (0,0)-(10,0) then (10,0)-(10,10), non-forced, the
\* curve generator emits exactly one cubic from the midpoint (5,0) to the
\* midpoint (10,5) with cuspness <<FALSE>>; its first control point lies on
\* the incoming PathLine and its second on the outgoing PathLine.
C12_SmoothBendOneCubic ==
  [][SmoothBendSent =>
       /\ error' = NoError
       /\ Len(batches') = 1
       /\ Len(batches'[1].segments) = 1
       /\ batches'[1].cuspness = <<FALSE>>
       /\ batches'[1].segments[1].kind = "curve"
       /\ batches'[1].segments[1].start = <<5, 0, 1>>
       /\ batches'[1].segments[1].end = <<10, 5, 1>>
       /\ OnPathLine(batches'[1].segments[1].cp1,
                     PathLine(<<0, 0>>, <<10, 0>>))
       /\ OnPathLine(batches'[1].segments[1].cp2,
                     PathLine(<<10, 0>>, <<10, 10>>))
       /\ path' = path \o batches'[1].segments]_vars

\* The bend was fitted: the path holds the cubic up to the first midpoint
\* and the cubic of the bend.
C12_Witness ==
  /\ lastEvent = "send"
  /\ error = NoError
  /\ curveHistory.end = PathLine(<<10, 0>>, <<10, 10>>)
  /\ ~linesSent[1].forced
  /\ Len(path) = 2
  /\ path[1].start = <<0, 0, 1>>
  /\ path[1].end = <<5, 0, 1>>
  /\ path[2].kind = "curve"
  /\ path[2].end = <<10, 5, 1>>

\* The vectors between two positions of the grid.
FunnelVectors == (-MaxX..MaxX) \X (-MaxY..MaxY)

\* update(v) leaves the funnel c as it is.
FixedBy(c, v) == update(c, v) = c

\* C13: from every funnel the line generator is left with by a turn and for
\* every vector v, a second update(v) in a row leaves constraintLeft and
\* constraintRight as the first update(v) left them.
C13_UpdateIdempotent ==
  lastEvent = "move" /\ turnsSent # <<>> =>
    \A v \in FunnelVectors : FixedBy(update(constraints, v), v)

\* A funnel narrowed by earlier turns that some vector still changes.
C13_Witness ==
  /\ lastEvent = "move"
  /\ turnsSent # <<>>
  /\ constraints.constraintLeft # <<0, 0>>
  /\ constraints.constraintRight # <<0, 0>>
  /\ \E v \in FunnelVectors :
       /\ update(constraints, v).constraintLeft # constraints.constraintLeft
       /\ update(constraints, v).constraintRight = constraints.constraintRight

\* The result Q of handling a position leaves the path the step left and
\* sends no turn marked forced.
SameOutputUnforced(Q) ==
  /\ Q.err = error'
  /\ Q.path = path'
  /\ Q.cuspness = cuspness'
  /\ \A i \in 1..Len(Q.turnsSent) : ~Q.turnsSent[i].forced

\* C14: the pipeline is purely positional: a pointerMoveEvent leaves the
\* same segments and cuspness whatever time elapsed since the previous
\* position, and the elapsed time never makes a turn forced.
C14_ElapsedTimeIrrelevant ==
  [][lastEvent' = "move" /\ error' = NoError =>
       \A positionElapsedTime \in ElapsedTimes :
         SameOutputUnforced(TurnGeneratorPosition(Pipe, lastSentPosition',
                                                  positionElapsedTime))]_vars

\* detectReversal's use of the axis tracker for a position that detect() did
\* not catch as a turn: determineOrientation is called when the orientation
\* is unknown and the position is not the anchor; onAxisValue is called when
\* the orientation is known after that.
AxisTrackerUsedSafely(d, position) ==
  LET OnAxisValueSafe(d1) ==
        d1.err = NoError /\ isOrientationKnown(d1.axis)
          => onAxisValueAsserts(d1.axis, position)
  IN /\ ~isOrientationKnown(d.axis) /\ position # d.axis.startPosition
          => /\ determineOrientationAsserts(d.axis, position)
             /\ determineOrientation(d.axis, position) # "Ambiguous"
     /\ OnAxisValueSafe(_tryDetermine(d, position))

\* C15: whatever the samples so far and whatever the next position, a
\* position that is not caught as a turn never reaches determineOrientation
\* diagonal to the anchor and never reaches onAxisValue unless the
\* orientation is known and the position is on that axis; no ambiguous-axis
\* error is raised.
C15_OffAxisCaughtBeforeAxisTracker ==
  /\ error # "RuntimeError"
  /\ wasPointerPress =>
       \A position \in Grid :
         ~isPositionDiagonal(reversalDetector.axis, position)
           => AxisTrackerUsedSafely(reversalDetector, position)

\* The axis tracker has absorbed a sample on a known axis, and some position
\* in line with the anchor across that axis would now be caught as a turn.
C15_Witness ==
  /\ lastEvent = "move"
  /\ error = NoError
  /\ turnsSent = <<>>
  /\ isOrientationKnown(reversalDetector.axis)
  /\ \E position \in Grid :
       /\ ~isDiagonalToStart(reversalDetector.axis, position)
       /\ isPositionDiagonal(reversalDetector.axis, position)

\* The step is a pointerMoveEvent outside a press ... release window.
MoveOutsideStroke == ~wasPointerPress /\ lastEvent' = "move"

\* C16: a pointerMoveEvent before any press or after the release that closed
\* the pipe is quietly ignored: nothing is sent into any stage, no segment
\* is emitted, the timer is not started, no tool state changes and the
\* closed pipe stays closed.
C16_MoveOutsideStrokeIgnored ==
  [][MoveOutsideStroke =>
       /\ error' = NoError
       /\ turnsSent' = <<>>
       /\ linesSent' = <<>>
       /\ batches' = <<>>
       /\ ~timerActive'
       /\ UNCHANGED << pipeState, toolState >>]_vars

\* A pointerMoveEvent was ignored after the release that closed a pipe which
\* had emitted segments.
C16_Witness ==
  /\ lastEvent = "move"
  /\ ~wasPointerPress
  /\ pipe = "closed"
  /\ path # <<>>
  /\ error = NoError

\* The step is a pointerPressEvent without a prior setSegmentString or
\* during a stroke, or a pointerReleaseEvent without a prior press.
CallOutOfOrder ==
  \/ lastEvent' = "press" /\ (wasPointerPress \/ ~wasSetSegment)
  \/ lastEvent' = "release" /\ ~wasPointerPress

\* C17: a call out of order fails with an assertion before any state of the
\* pipe or of the tool is changed.
C17_CallOrderAsserted ==
  [][CallOutOfOrder =>
       /\ error' = "AssertionError"
       /\ turnsSent' = <<>>
       /\ linesSent' = <<>>
       /\ batches' = <<>>
       /\ UNCHANGED << pipeState, toolState >>]_vars

\* A second pointerReleaseEvent after the stroke was closed has failed.
C17_Witness ==
  /\ lastEvent = "release"
  /\ error = "AssertionError"
  /\ pipe = "closed"
  /\ ~wasPointerPress
  /\ path # <<>>

\* What the turn generator did with the sample, given the detector's answer r.
NonForcedSampleHandled(r, position) ==
  IF r.result # None
    THEN /\ turnsSent' = << [turn |-> r.result, forced |-> FALSE] >>
         /\ history' = collapse(history, position)
    ELSE /\ turnsSent' = <<>>
         /\ linesSent' = <<>>
         /\ batches' = <<>>
         /\ history' = updateEnd(history, position)

\* C18: for a non-forced sample the turn generator pushes exactly one turn,
\* marked non-forced, when the detector yields one, and collapses its
\* history onto the sample position; when the detector yields nothing it
\* pushes nothing and only sets history.end to the sample.
C18_NonForcedSampleOneUnforcedTurn ==
  [][lastEvent' = "move" /\ error' = NoError =>
       NonForcedSampleHandled(detectTurn(reversalDetector, lastSentPosition'),
                              lastSentPosition')]_vars

C20_CloseFlushesOneForcedTurn ==
  [][ReleaseStep /\ wasPointerMove =>
       IF isCollapsed(history)
         THEN turnsSent' = <<>>
         ELSE turnsSent' = << [turn |-> history.end, forced |-> TRUE] >>]_vars

\* The bound of the interval that is currently growing.
GrowingBound(d) ==
  IF d.isGrowingLower = "True" THEN d.lowerLimit ELSE d.upperLimit

\* The reversal rule: the direction of growth is known, the interval spans
\* more than 2 units and the position's axis value lies inside the interval,
\* more than 1 unit off the growing bound.
ReversalRule(d, position) ==
  /\ isOrientationKnown(d.axis)
  /\ isDirectionKnown(d)
  /\ d.upperLimit - d.lowerLimit + 1 > 2
  /\ d.lowerLimit <= onAxisValue(d.axis, position)
  /\ onAxisValue(d.axis, position) <= d.upperLimit
  /\ Abs(onAxisValue(d.axis, position) - GrowingBound(d)) > 1

\* r, the answer of detectReversal(d, position), follows the rule.
ReversalRuleObeyed(d, position, r) ==
  /\ r.det.err = NoError
  /\ r.result # None <=> ReversalRule(d, position)
  /\ r.result # None =>
       /\ r.result = d.extremePosition
       /\ onAxisValue(d.axis, d.extremePosition) = GrowingBound(d)

\* C21: whatever the samples so far, the next on-axis position is reported
\* as a reversal exactly when the interval spans more than 2 units and the
\* position lies more than 1 unit inside the growing bound; one that
\* retraces the last unit or lies on or beyond the bound is absorbed; the
\* turn reported is extremePosition, which set the growing bound.
C21_ReversalRule ==
  wasPointerPress =>
    \A position \in AxisPositions :
      ~isPositionDiagonal(reversalDetector.axis, position)
        => ReversalRuleObeyed(reversalDetector, position,
                              detectReversal(reversalDetector, position))

\* A reversal was reported: the turn sent is the earlier extreme position,
\* two or more units beyond the sample; and in the state left a retreat of
\* one unit would be absorbed.
C21_Witness ==
  /\ lastEvent = "move"
  /\ error = NoError
  /\ Len(turnsSent) = 1
  /\ turnsSent[1].turn # lastSentPosition
  /\ ~isPositionDiagonal(reversalDetector.axis, turnsSent[1].turn)
  /\ Abs(onAxisValue(reversalDetector.axis, turnsSent[1].turn)
           - onAxisValue(reversalDetector.axis, lastSentPosition)) >= 2

\* The step handles a sample that the detector d reports as a reversal.
ReversalReported(d, position) ==
  /\ lastEvent' = "move"
  /\ error' = NoError
  /\ position = lastSentPosition'
  /\ ~isPositionDiagonal(d.axis, position)
  /\ detectReversal(d, position).result # None

\* The detector e is the detector d re-anchored after its reversal at
\* position.
ReAnchored(d, e, position) ==
  LET Between(old, new) ==
        /\ e.lowerLimit = IF old < new THEN old ELSE new
        /\ e.upperLimit = IF old < new THEN new ELSE old
  IN /\ e.axis.orientation = d.axis.orientation
     /\ e.axis.startPosition = d.extremePosition
     /\ e.isGrowingLower = IF d.isGrowingLower = "True" THEN "False"
                                                         ELSE "True"
     /\ Between(onAxisValue(d.axis, d.extremePosition),
                onAxisValue(d.axis, position))
     /\ e.extremePosition = position
     /\ detectReversal(e, e.axis.startPosition).result = position

\* C22: after a reversal is reported the detector keeps the orientation of
\* its axis, is anchored at the old extremePosition, grows in the opposite
\* direction, has the interval between the old extreme and the new position
\* as limits and the new position as extremePosition; a return to the turn
\* point is then reported as a reversal from the new position.
C22_ReAnchoredAfterReversal ==
  [][\A position \in AxisPositions :
       ReversalReported(reversalDetector, position)
         => ReAnchored(reversalDetector, reversalDetector', position)]_vars

\* A reversal has just been reported: the detector is anchored at the turn
\* it sent and its extreme position is the sample.
C22_Witness ==
  /\ lastEvent = "move"
  /\ error = NoError
  /\ Len(turnsSent) = 1
  /\ turnsSent[1].turn # lastSentPosition
  /\ reversalDetector.axis.startPosition = turnsSent[1].turn
  /\ reversalDetector.extremePosition = lastSentPosition
  /\ isDirectionKnown(reversalDetector)

\* The step is a pointer move whose sample made the turn generator send the
\* one non-forced turn T to the line generator.
NonForcedTurnStep(T) ==
  /\ lastEvent' = "move"
  /\ turnsSent' = << [turn |-> T, forced |-> FALSE] >>

\* What the line generator does with the non-forced turn T: a split on a
\* violated funnel, a deferral otherwise.
SplitOrDefer(T) ==
  IF isViolatedBy(constraints, PointMinus(T, turnHistory.start))
    THEN /\ linesSent' = << [line |-> PathLine(turnHistory.start,
                                               turnHistory.end),
                             forced |-> FALSE] >>
         /\ linesSent'[1].line.p2 # T
         /\ constraints' = Constraints
         /\ turnHistory' = [start |-> turnHistory.end, end |-> T]
    ELSE /\ linesSent' = << >>
         /\ turnHistory' = [start |-> turnHistory.start, end |-> T]

\* C23: for a non-forced turn T the line generator emits a PathLine exactly
\* when T - history.start violates the funnel; the line is
\* PathLine(history.start, history.end), which does not end at T; afterwards
\* the funnel is the zero funnel and history is (old history.end, T).
\* Otherwise nothing is emitted, history.start is kept and history.end is T.
C23_NonForcedTurnSplitsOrDefers ==
  [][\A T \in Grid : NonForcedTurnStep(T) => SplitOrDefer(T)]_vars


\* The funnel c admits the vector v.
Admits(c, v) ==
  /\ crossProduct(c.constraintLeft, v) >= 0
  /\ crossProduct(c.constraintRight, v) <= 0

\* C24: from every funnel the line generator is left with by a turn, and for
\* every vector v that does not violate it, the funnel after update(v) is not
\* violated by v: cross(constraintLeft, v) >= 0 and
\* cross(constraintRight, v) <= 0.
C24_UpdateAdmitsVector ==
  lastEvent = "move" /\ turnsSent # <<>> =>
    \A v \in FunnelVectors :
      ~isViolatedBy(constraints, v) =>
        /\ ~isViolatedBy(update(constraints, v), v)
        /\ Admits(update(constraints, v), v)

\* A funnel narrowed by earlier turns and a vector inside it that moves the
\* right constraint.
C24_Witness ==
  /\ lastEvent = "move"
  /\ turnsSent # <<>>
  /\ constraints # Constraints
  /\ \E v \in FunnelVectors :
       /\ v # <<0, 0>>
       /\ ~isViolatedBy(constraints, v)
       /\ update(constraints, v).constraintRight # constraints.constraintRight
       /\ update(constraints, v).constraintRight # v

\* The step made the turn generator send the one forced turn T to the line
\* generator.
ForcedTurnStep(T) == turnsSent' = << [turn |-> T, forced |-> TRUE] >>

\* The line generator's answer to the forced turn T.
OneForcedLineTo(T) ==
  /\ linesSent' = << [line |-> IF turnHistory.start = T
                                 THEN nullPathLine(T)
                                 ELSE PathLine(turnHistory.start, T),
                      forced |-> TRUE] >>
  /\ constraints' = Constraints
  /\ turnHistory' = [start |-> T, end |-> T]

\* C25: a forced turn T makes the line generator send exactly one forced
\* PathLine, the null PathLine at T when history.start = T and
\* PathLine(history.start, T) otherwise, whatever the funnel; the funnel is
\* reset and history is left collapsed on T.
C25_ForcedTurnOneForcedLine ==
  [][\A T \in Grid : ForcedTurnStep(T) => OneForcedLineTo(T)]_vars

\* A forced turn away from history.start has been handled: one non-null
\* forced line ending at the turn, history collapsed on the turn.
C25_Witness ==
  /\ Len(turnsSent) = 1
  /\ turnsSent[1].forced
  /\ Len(linesSent) = 1
  /\ linesSent[1].forced
  /\ ~isNullPathLine(linesSent[1].line)
  /\ linesSent[1].line.p2 = turnsSent[1].turn
  /\ turnHistory = [start |-> turnsSent[1].turn, end |-> turnsSent[1].turn]
  /\ constraints = Constraints

\* The step is the release that closes a pipe whose turn generator closed
\* without an exception and left the pipe P1 to the line generator's close.
LineGeneratorClosed(P1) ==
  /\ ReleaseStep
  /\ wasPointerMove
  /\ P1.err = NoError

\* The lines the curve generator received from the line generator's close:
\* those of the step after the ones the turn generator's close caused.
LinesOfClose(P1) ==
  SubSeq(linesSent', Len(P1.linesSent) + 1, Len(linesSent'))

\* C26 as stated: the close emits PathLine(history.start, history.end)
\* marked non-forced if history is not collapsed, and then in every case a
\* null PathLine at history.end marked non-forced.
TwoUnforcedLines(P1) ==
  LinesOfClose(P1) =
    (IF ~isCollapsed(P1.turnHistory)
       THEN << [line |-> PathLine(P1.turnHistory.start, P1.turnHistory.end),
                forced |-> FALSE] >>
       ELSE << >>)
    \o << [line |-> nullPathLine(P1.turnHistory.end), forced |-> FALSE] >>

TerminatingForcedLine(P1, last) ==
  /\ LinesOfClose(P1) # << >>
  /\ last.forced
  /\ last.line.p2 = P1.turnHistory.end
  /\ last.line.p1 = P1.turnHistory.start
  /\ isNullPathLine(last.line) <=> isCollapsed(P1.turnHistory)
  /\ SubSeq(linesSent', 1, Len(linesSent') - 1) = P1.linesSent

ExactlyOneForcingLine(P1) ==
  /\ LinesOfClose(P1) =
       << [line |-> IF ~isCollapsed(P1.turnHistory)
                      THEN PathLine(P1.turnHistory.start, P1.turnHistory.end)
                      ELSE nullPathLine(P1.turnHistory.end),
           forced |-> TRUE] >>
  /\ turnHistory' = P1.turnHistory
  /\ constraints' = P1.constraints

AfterStartSplitOrForce ==
  /\ error = NoError
  /\ \/ lastEvent = "press"
     \/ /\ lastEvent \in {"move", "timeout"}
        /\ Len(turnsSent) = 1
        /\ turnsSent[1].forced \/ linesSent # << >>

\* C28: the zero funnel is violated by no vector; the funnel is zero at
\* stroke start, after every split and after every forced turn; and a
\* non-forced turn that meets the zero funnel is deferred (no PathLine,
\* history.start kept), so that no two non-forced turns in a row emit a
\* PathLine.
C28_NoSplitOnZeroFunnel ==
  [][/\ AfterStartSplitOrForce' =>
          /\ constraints' = Constraints
          /\ \A v \in FunnelVectors : ~isViolatedBy(constraints', v)
     /\ \A T \in Grid :
          NonForcedTurnStep(T) /\ constraints = Constraints
            => /\ linesSent' = << >>
               /\ turnHistory'.start = turnHistory.start]_vars

\* The non-forced turn after a split was deferred: the curve generator holds
\* the line of the split, history starts where that line ends, and the funnel
\* is the zero funnel updated by this one turn.
C28_Witness ==
  /\ lastEvent = "move"
  /\ error = NoError
  /\ Len(turnsSent) = 1
  /\ ~turnsSent[1].forced
  /\ linesSent = << >>
  /\ ~isNullPathLine(curveHistory.end)
  /\ turnHistory.start = curveHistory.end.p2
  /\ turnHistory.end = turnsSent[1].turn
  /\ constraints = update(Constraints,
                          PointMinus(turnHistory.end, turnHistory.start))
  /\ constraints # Constraints

\* The step sent the curve generator one line, a forced null PathLine, while
\* its history.end was a null PathLine.
FlushOfFlushed ==
  /\ wasPointerPress
  /\ isNullPathLine(curveHistory.end)
  /\ Len(linesSent') = 1
  /\ linesSent'[1].forced
  /\ isNullPathLine(linesSent'[1].line)

\* Nothing was emitted and no exception left the pipe.
NoSegmentsAdded ==
  /\ batches' = << >>
  /\ path' = path
  /\ cuspness' = cuspness
  /\ error' = NoError

\* The step is a forced sample at the position of the forced sample before
\* it, no turn having reached the line generator in between.
SecondForcedSample ==
  /\ lastEvent' = "timeout"
  /\ lastEvent # "timeout"
  /\ turnHistory = History(lastSentPosition)
  /\ curveHistory.end = nullPathLine(lastSentPosition)

\* The step is the release that follows a pause flush.
CloseAfterPauseFlush == lastEvent = "timeout" /\ ReleaseStep

ForcedLineOnPending(L) ==
  /\ lastEvent' = "send"
  /\ ~isNullPathLine(curveHistory.end)
  /\ linesSent' = << [line |-> L, forced |-> TRUE] >>

\* The batch of a mid-to-end fit: the mid-to-mid segments, then a straight
\* segment that ends at endPoint.
MidToEndBatch(b, endPoint) ==
  /\ b.cuspness \in { <<FALSE, TRUE>>, <<TRUE, FALSE, TRUE>> }
  /\ Len(b.segments) = Len(b.cuspness)
  /\ b.segments[Len(b.segments)].kind = "line"
  /\ b.segments[Len(b.segments)].end = endPoint
  /\ \A i \in 1..(Len(b.segments) - 1) :
       b.segments[i].end = b.segments[i + 1].start

\* C30: a forced PathLine L received while a non-null line is pending makes
\* the curve generator emit the mid-to-mid fit of (history.end, L) and one
\* more straight segment that ends at L.p2, two segments with cuspness
\* [false, true] or three with [true, false, true], and set history.end to
\* the null PathLine at L.p2, for every such L, null or not.
C30_ForcedLineOnPendingFitsToEnd ==
  [][\A p1 \in CurvePoints, p2 \in CurvePoints :
       ForcedLineOnPending(PathLine(p1, p2)) =>
         /\ error' = NoError
         /\ Len(batches') = 1
         /\ MidToEndBatch(batches'[1], mapFromDeviceToScene(p2))
         /\ curveHistory'.end = nullPathLine(p2)]_vars

\* The step sent the curve generator exactly one PathLine, a non-forced one.
NonForcedLineStep ==
  /\ wasPointerPress
  /\ Len(linesSent') = 1
  /\ ~linesSent'[1].forced

\* alpha > ALPHAMAX in exact arithmetic, for the bend point1, point2, point3.
CuspInExactArithmetic(point1, point2, point3) ==
  \/ ddenom(point1, point3) = 0
  \/ Abs(areaOfParallelogram(point1, point2, point3))
       > 10 * Abs(ddenom(point1, point3))

\* The batch b is the fit the claim expects for the pending line line1 and
\* the line L, and the cached end point is its end.
MidToMidFit(line1, L, b, midpoint1, midpoint2, point2) ==
  /\ IF CuspInExactArithmetic(mapFromDeviceToScene(line1.p1), point2,
                              mapFromDeviceToScene(L.p2))
       THEN /\ b.segments = << LineSegment(lastEndPointGenerated, point2),
                               LineSegment(point2, midpoint2) >>
            /\ b.cuspness = << TRUE, FALSE >>
       ELSE /\ Len(b.segments) = 1
            /\ b.segments[1].kind = "curve"
            /\ b.segments[1].start = midpoint1
            /\ b.segments[1].end = midpoint2
            /\ b.cuspness = << FALSE >>
  /\ lastEndPointGenerated' = midpoint2

\* The step handled the non-forced line L, met with line1 pending, as the
\* claim says.
FittedMidToMid(line1, L) ==
  /\ error' = NoError
  /\ Len(batches') = 1
  /\ curveHistory'.end = L
  /\ MidToMidFit(line1, L, batches'[1],
                 interval(mapFromDeviceToScene(line1.p2),
                          mapFromDeviceToScene(line1.p1), <<1, 2>>),
                 interval(mapFromDeviceToScene(L.p2),
                          mapFromDeviceToScene(L.p1), <<1, 2>>),
                 mapFromDeviceToScene(line1.p2))

\* C31: for a non-forced PathLine L the curve generator chooses a cusp
\* exactly when alpha > ALPHAMAX (ddenom(p1,p3) = 0 or
\* |area(p1,p2,p3)| > 10 |ddenom(p1,p3)|) and emits the two straight segments
\* lastEndPointGenerated -> p2 and p2 -> midpoint2 with cuspness
\* [true, false]; otherwise it emits one cubic from midpoint1 to midpoint2
\* with cuspness [false]; in both cases history.end becomes L and the batch
\* ends at midpoint2.
C31_NonForcedLineCuspOrCubic ==
  [][NonForcedLineStep
       => FittedMidToMid(curveHistory.end, linesSent'[1].line)]_vars

\* C31 (amended): the same, for every non-forced PathLine L except a null L
\* received while history.end is a null PathLine.
C31_CuspOrCubicUnlessBothNull ==
  [][/\ NonForcedLineStep
     /\ ~(/\ isNullPathLine(linesSent'[1].line)
          /\ isNullPathLine(curveHistory.end))
     => FittedMidToMid(curveHistory.end, linesSent'[1].line)]_vars

\* A non-forced line that turned back sharply on the pending line was fitted
\* with a cusp: two straight segments meeting where the lines meet.
C31_Witness ==
  /\ lastEvent = "send"
  /\ error = NoError
  /\ Len(linesSent) = 1
  /\ ~linesSent[1].forced
  /\ Len(batches) = 1
  /\ batches[1].cuspness = << TRUE, FALSE >>
  /\ batches[1].segments[1].end = mapFromDeviceToScene(linesSent[1].line.p1)
  /\ batches[1].segments[2].end = lastEndPointGenerated

\* The segments the claim expects of a cusp from tail through cuspPoint to
\* endPoint: each candidate unless its end points coincide.
Survivors(tail, cuspPoint, endPoint) ==
  (IF tail # cuspPoint THEN << LineSegment(tail, cuspPoint) >> ELSE << >>)
    \o (IF cuspPoint # endPoint
          THEN << LineSegment(cuspPoint, endPoint) >> ELSE << >>)

\* C32: in cusp emission a candidate segment whose end points coincide is
\* omitted, and only that one; the returned end point is the given end point
\* (midpoint2) in all four cases; the cuspness list is [true, false] for two
\* survivors, has one element for one survivor and is empty for none.
C32_CuspOmitsOnlyDegenerate ==
  [][lastEvent' = "cusp" =>
       /\ error' = NoError
       /\ Len(batches') = 1
       /\ batches'[1].segments =
            Survivors(lastEndPointGenerated, track'[1], track'[2])
       /\ Len(batches'[1].cuspness) = Len(batches'[1].segments)
       /\ Len(batches'[1].segments) = 2
            => batches'[1].cuspness = << TRUE, FALSE >>
       /\ lastEndPointGenerated' = track'[2]
       /\ path' = path \o batches'[1].segments]_vars

\* A cusp whose first candidate was degenerate: the second one alone was
\* emitted, from the cusp point to the end point.
C32_Witness ==
  /\ lastEvent = "cusp"
  /\ error = NoError
  /\ Len(batches[1].segments) = 1
  /\ batches[1].segments[1].start = track[1]
  /\ batches[1].segments[1].end = track[2]
  /\ lastEndPointGenerated = track[2]

\* In the pipe Q the cached last end point is the end point of the last
\* segment of the path.
TailCached(Q) ==
  /\ Q.path # << >>
  /\ Q.lastEndPointGenerated = Q.path[Len(Q.path)].end

\* Every batch of the step was empty.
OnlyEmptyBatches ==
  /\ batches' # << >>
  /\ \A i \in 1..Len(batches') : batches'[i].segments = << >>

\* C33: after every batch pushed to the sink the cached last end point is
\* the end point of the last segment emitted so far (at a release: until the
\* tool's reset clears the cache); an empty batch moves neither the path nor
\* the cache.
C33_CacheIsPathTail ==
  [][/\ batches' # << >> /\ ~(lastEvent' = "release" /\ error' = NoError)
          => /\ path' # << >>
             /\ lastEndPointGenerated' = path'[Len(path')].end
     /\ ReleaseStep /\ wasPointerMove /\ batches' # << >>
          => TailCached(_closeFilterPipe(Pipe))
     /\ OnlyEmptyBatches
          => /\ path' = path
             /\ lastEvent' # "release"
                  => lastEndPointGenerated' = lastEndPointGenerated]_vars

\* An empty batch was pushed onto a path that has segments: the cache is
\* still at the end of the path's last segment.
C33_Witness ==
  /\ error = NoError
  /\ lastEvent # "release"
  /\ Len(batches) = 1
  /\ batches[1].segments = << >>
  /\ path # << >>
  /\ lastEndPointGenerated = path[Len(path)].end

\* The PathLines of the step chain: the first starts where the pending line
\* ends, each next one where the one before it ends.
LinesChained ==
  /\ linesSent'[1].line.p1 = curveHistory.end.p2
  /\ \A i \in 1..(Len(linesSent') - 1) :
       linesSent'[i + 1].line.p1 = linesSent'[i].line.p2

\* C34: every PathLine the curve generator receives, non-forced, forced or
\* closing, starts where its pending line ends; at the press the pending
\* line is the null line at the stroke's start position, so the first
\* PathLine starts there.
C34_PathLinesChain ==
  [][/\ lastEvent' = "press"
          => /\ isNullPathLine(curveHistory'.end)
             /\ curveHistory'.end.p2 = history'.start
             /\ curveHistory'.end.p2 = turnHistory'.start
     /\ wasPointerPress /\ linesSent' # << >> => LinesChained]_vars

\* A close that sent two lines, the split of the closing turn and the closing
\* forced line that starts where the split ends, both non-null.
C34_Witness ==
  /\ lastEvent = "release"
  /\ error = NoError
  /\ Len(linesSent) = 2
  /\ ~linesSent[1].forced
  /\ linesSent[2].forced
  /\ ~isNullPathLine(linesSent[1].line)
  /\ ~isNullPathLine(linesSent[2].line)
  /\ linesSent[2].line.p1 = linesSent[1].line.p2

\* The step emitted at most maxBatches batches of at most maxSegments
\* segments each.
BatchesWithin(maxBatches, maxSegments) ==
  /\ Len(batches') <= maxBatches
  /\ \A i \in 1..Len(batches') : Len(batches'[i].segments) <= maxSegments

\* C35: one non-forced sample causes at most one turn, at most one PathLine
\* and at most one batch of at most 2 segments; one forced sample causes
\* exactly one forced turn, exactly one forced PathLine and at most one batch
\* of at most 3 segments; close causes at most two batches.
C35_OutputPerInputBounded ==
  [][/\ lastEvent' = "move" /\ wasPointerPress
          => /\ Len(turnsSent') <= 1
             /\ Len(linesSent') <= 1
             /\ BatchesWithin(1, 2)
     /\ lastEvent' = "timeout"
          => /\ turnsSent' = << [turn |-> lastSentPosition, forced |-> TRUE] >>
             /\ Len(linesSent') = 1
             /\ linesSent'[1].forced
             /\ BatchesWithin(1, 3)
     /\ ReleaseStep => Len(batches') <= 2]_vars

\* The curve generator, with line1 pending, fits the line sent to it mid to
\* mid (a non-forced line, or a forced one met with a line pending) and the
\* fit is a cusp.
CallsSegmentsForCusp(line1, sent) ==
  /\ ~sent.forced \/ ~isNullPathLine(line1)
  /\ CuspInExactArithmetic(mapFromDeviceToScene(line1.p1),
                           mapFromDeviceToScene(line1.p2),
                           mapFromDeviceToScene(sent.line.p2))

\* C36: whenever the curve generator calls segmentsForCusp,
\* lastEndPointGenerated has been set by an earlier batch of the stroke: the
\* first line of an event never needs a cusp while the cache is unset, and
\* no event ends in the AttributeError of a cusp drawn from an unset cache.
C36_CuspHasTail ==
  [][/\ wasPointerPress /\ linesSent' # << >>
          /\ CallsSegmentsForCusp(curveHistory.end, linesSent'[1])
          => lastEndPointGenerated # None
     /\ error' # "AttributeError"]_vars

\* The limits of the detector d are an interval of at least two values that
\* holds the anchor.
LimitsHoldAnchor(d) ==
  /\ d.lowerLimit < d.upperLimit
  /\ d.lowerLimit <= onAxisValue(d.axis, d.axis.startPosition)
  /\ onAxisValue(d.axis, d.axis.startPosition) <= d.upperLimit

\* C37: after any sequence of positions, no assertion of the detector has
\* failed; when the orientation is known, lowerLimit < upperLimit and the
\* anchor's axis value lies within the limits; when the growth direction is
\* known, extremePosition projects onto the growing bound.
C37_DetectorInvariant ==
  reversalDetector # None =>
    /\ reversalDetector.err = NoError
    /\ isOrientationKnown(reversalDetector.axis)
         => LimitsHoldAnchor(reversalDetector)
    /\ isDirectionKnown(reversalDetector)
         => /\ isOrientationKnown(reversalDetector.axis)
            /\ onAxisValue(reversalDetector.axis,
                           reversalDetector.extremePosition)
                 = GrowingBound(reversalDetector)

\* The detector after a reversal and a further expansion: the anchor lies
\* strictly inside limits three or more values wide and the extreme position
\* sits on the growing bound.
C37_Witness ==
  /\ wasPointerPress
  /\ error = NoError
  /\ isDirectionKnown(reversalDetector)
  /\ reversalDetector.lowerLimit
       < onAxisValue(reversalDetector.axis,
                     reversalDetector.axis.startPosition)
  /\ onAxisValue(reversalDetector.axis, reversalDetector.axis.startPosition)
       < reversalDetector.upperLimit
  /\ onAxisValue(reversalDetector.axis, reversalDetector.extremePosition)
       = GrowingBound(reversalDetector)

\* The limits of the detector d are set and position lies beyond them.
ExpandsLimits(d, position) ==
  /\ isOrientationKnown(d.axis)
  /\ \/ onAxisValue(d.axis, position) < d.lowerLimit
     \/ onAxisValue(d.axis, position) > d.upperLimit

\* r is the answer of detectReversal(d, position): a reversal only when the
\* direction was known, and a direction learnt only by expanding the limits.
DirectionLearntByExpansion(d, position, r) ==
  /\ r.det.err = NoError
  /\ r.result # None => isDirectionKnown(d)
  /\ ~isDirectionKnown(d) /\ isDirectionKnown(r.det)
       => ExpandsLimits(d, position)
  /\ ~isDirectionKnown(d) /\ ~ExpandsLimits(d, position)
       => /\ r.result = None
          /\ ~isDirectionKnown(r.det)
          /\ isOrientationKnown(d.axis) => r.det = d

\* C38: a reversal is reported only once the direction of growth is known,
\* and the direction becomes known only when a position expands the interval
\* beyond the limits already set; so after a single jump from the anchor any
\* retreat along the axis is absorbed without a turn and changes nothing.
C38_DirectionKnownBeforeReversal ==
  wasPointerPress =>
    \A position \in AxisPositions :
      ~isPositionDiagonal(reversalDetector.axis, position)
        => DirectionLearntByExpansion(
             reversalDetector, position,
             detectReversal(reversalDetector, position))

\* A jump of three units from the anchor was followed by a retreat of two:
\* no turn was sent and the direction of growth is still unknown.
C38_Witness ==
  /\ lastEvent = "move"
  /\ error = NoError
  /\ turnsSent = <<>>
  /\ isOrientationKnown(reversalDetector.axis)
  /\ ~isDirectionKnown(reversalDetector)
  /\ reversalDetector.upperLimit - reversalDetector.lowerLimit >= 3
  /\ Abs(onAxisValue(reversalDetector.axis, lastSentPosition)
           - onAxisValue(reversalDetector.axis,
                         reversalDetector.extremePosition)) >= 2
  /\ Abs(onAxisValue(reversalDetector.axis, lastSentPosition)
           - onAxisValue(reversalDetector.axis,
                         reversalDetector.axis.startPosition)) >= 1

\* The batch b has one flag for each segment, and its last flag says
\* whether a forced PathLine caused it.
EndsInCuspIffForced(b) ==
  /\ Len(b.cuspness) = Len(b.segments)
  /\ b.cuspness[Len(b.cuspness)] = b.forced

\* C39: the last cuspness flag of every non-empty batch is true exactly when
\* a forced PathLine caused the batch: a forced batch ends in a cusp flag,
\* a non-forced batch (one cubic, or the segments of a cusp) never does.
C39_LastFlagIffForced ==
  \A i \in 1..Len(batches) :
    batches[i].segments # <<>> => EndsInCuspIffForced(batches[i])

\* A forced line met a pending line at a sharp angle: the batch is the two
\* lines of the cusp and the closing line, flagged cusp, smooth, cusp.
C39_Witness ==
  /\ error = NoError
  /\ Len(batches) = 1
  /\ batches[1].forced
  /\ Len(batches[1].segments) = 3
  /\ batches[1].cuspness = <<TRUE, FALSE, TRUE>>
  /\ cuspness # <<>>
  /\ cuspness[Len(cuspness)]

\* C40: the pause timer and the pointer events never race on a closed pipe:
\* whenever the timer is armed, so that handleTimeout can send a forced
\* flush into the turn generator, a press has been accepted, the timer was
\* armed at the position of a move and the pipe of the stroke is open.
C40_TimerArmedOnlyOnOpenPipe ==
  timerActive =>
    /\ wasPointerPress
    /\ lastSentPosition # None
    /\ pipe = "open"

=============================================================================
